---- MODULE Spec2Model ----
(***************************************************************************)
(* JobTree webhook handler (examples/jobtree/sync.py) as a state machine.  *)
(*                                                                         *)
(* Python values are tagged records [t, v]: t is the Python type, v the    *)
(* payload.  A str payload is a TLA+ string, a list payload a sequence of  *)
(* values, a dict payload the sequence of its <<key, value>> items in      *)
(* insertion order (keys are str payloads, unique).                        *)
(***************************************************************************)
EXTENDS Integers, Sequences, FiniteSets, TLC

VARIABLES
    request_data,   \* the request document the webhook is called with
    response,       \* outcome of handle_json_request for request_data
    pc,             \* "request": request_data not handled yet; "response": handled
    cycles,         \* number of requests handled so far
    same_pods,      \* request_data reports the pods the request before it reported
    gp_args,        \* arguments of a getpath call: [root, path, default]
    gp_result       \* outcome of that call

vars == <<request_data, response, pc, cycles, same_pods, gp_args, gp_result>>

-----------------------------------------------------------------------------
(* Python values                                                           *)

PyStr(s) == [t |-> "str", v |-> s]
PyInt(n) == [t |-> "int", v |-> n]
PyList(items) == [t |-> "list", v |-> items]
PyDict(items) == [t |-> "dict", v |-> items]
None == [t |-> "NoneType", v |-> 0]
Ellipsis == [t |-> "ellipsis", v |-> 0]

\* Python's == on the values above
PyEq(a, b) == a.t = b.t /\ a.v = b.v

\* Outcome of an expression: a value, or the exception it raised
Return(value) == [ok |-> TRUE, val |-> value, exc |-> ""]
Raise(exception) == [ok |-> FALSE, val |-> None, exc |-> exception]

HasKey(d, key) == \E i \in 1..Len(d.v) : d.v[i][1] = key
ValueAt(d, key) == d.v[CHOOSE i \in 1..Len(d.v) : d.v[i][1] = key][2]

\* root[key] for a str key
GetItem(root, key) ==
    IF root.t = "dict"
    THEN IF HasKey(root, key) THEN Return(ValueAt(root, key)) ELSE Raise("KeyError")
    ELSE Raise("TypeError")

\* root.get(key, default) forgetting the default
DictGetStrict(root, key, default) ==
    IF root.t = "dict"
    THEN IF HasKey(root, key) THEN Return(ValueAt(root, key)) ELSE Raise("KeyError")
    ELSE Raise("AttributeError")

\* root.get(key, default)
DictGet(root, key, default) ==
    IF root.t = "dict"
    THEN IF HasKey(root, key) THEN Return(ValueAt(root, key)) ELSE Return(default)
    ELSE Raise("AttributeError")

\* path.split(':'): the pieces between the colons, at least one piece
RECURSIVE split(_)
split(path) ==
    IF \E i \in 1..Len(path) : SubSeq(path, i, i) = ":"
    THEN LET i == CHOOSE k \in 1..Len(path) :
                      /\ SubSeq(path, k, k) = ":"
                      /\ \A m \in 1..(k - 1) : SubSeq(path, m, m) # ":"
         IN  <<SubSeq(path, 1, i - 1)>> \o split(SubSeq(path, i + 1, Len(path)))
    ELSE <<path>>

\* ':'.join(parts)
RECURSIVE join(_)
join(parts) ==
    IF parts = <<>> THEN ""
    ELSE IF Len(parts) = 1 THEN parts[1]
    ELSE parts[1] \o ":" \o join(Tail(parts))

\* getpath handing the default, not an empty dict, to the rest of the path
RECURSIVE getpath_default_inside(_, _, _)
getpath_default_inside(root, path, default) ==
    LET next_item == Head(split(path))
        rest == Tail(split(path))
    IN  IF rest # <<>>
        THEN LET value == IF default.t = "ellipsis"
                          THEN GetItem(root, next_item)
                          ELSE DictGet(root, next_item, default)
             IN  IF value.ok THEN getpath_default_inside(value.val, join(rest), default)
                 ELSE value
        ELSE IF default.t = "ellipsis"
             THEN GetItem(root, next_item)
             ELSE DictGet(root, next_item, default)

RECURSIVE getpath(_, _, _)
getpath(root, path, default) ==
    LET next_item == Head(split(path))
        rest == Tail(split(path))
    IN  IF rest # <<>>
        THEN LET value == IF default.t = "ellipsis"
                          THEN GetItem(root, next_item)
                          ELSE DictGet(root, next_item, PyDict(<<>>))
             IN  IF value.ok THEN getpath(value.val, join(rest), default) ELSE value
        ELSE IF default.t = "ellipsis"
             THEN GetItem(root, next_item)
             ELSE DictGet(root, next_item, default)

-----------------------------------------------------------------------------
(* Iteration and tuple unpacking, as the comprehensions and for loops of   *)
(* handle_json_request use them                                            *)

\* The items a for loop over value visits: a list's elements, a dict's keys,
\* a str's characters
Iterate(value) ==
    CASE value.t = "list" -> Return(value.v)
      [] value.t = "dict" -> Return([i \in 1..Len(value.v) |-> PyStr(value.v[i][1])])
      [] value.t = "str" -> Return([i \in 1..Len(value.v) |-> PyStr(SubSeq(value.v, i, i))])
      [] OTHER -> Raise("TypeError")

\* a, b = value
Unpack2(value) ==
    LET items == Iterate(value)
    IN  IF ~items.ok THEN items
        ELSE IF Len(items.val) # 2 THEN Raise("ValueError")
        ELSE Return(<<items.val[1], items.val[2]>>)

\* The outcome of a comprehension whose elements have the outcomes in results:
\* the list of their values, or the first exception
Collect(results) ==
    IF \E i \in 1..Len(results) : ~results[i].ok
    THEN results[CHOOSE i \in 1..Len(results) :
                     /\ ~results[i].ok
                     /\ \A k \in 1..(i - 1) : results[k].ok]
    ELSE Return([i \in 1..Len(results) |-> results[i].val])

\* [(a, b) for a, b in value]
UnpackPairs(value) ==
    LET items == Iterate(value)
    IN  IF ~items.ok THEN items
        ELSE Collect([i \in 1..Len(items.val) |-> Unpack2(items.val[i])])

\* str(value), for the values that occur as names
str(value) ==
    CASE value.t = "str" -> value
      [] value.t = "int" -> PyStr(ToString(value.v))
      [] value.t = "NoneType" -> PyStr("None")

-----------------------------------------------------------------------------
(* The phase list and the job calculator                                   *)

\* phases is a list of (job_name, phase) tuples
get_job_phase(job_name, phases) ==
    LET found == {i \in 1..Len(phases) : PyEq(phases[i][1], job_name)}
    IN  IF found = {} THEN None
        ELSE phases[CHOOSE i \in found : \A k \in found : k <= i][2]

\* set_job_phase appending without the search for an entry of the job
set_job_phase_append(job_name, phases, phase) ==
    Append(phases, <<job_name, phase>>)

\* the list after set_job_phase(job_name, phases, phase) has updated it in place
set_job_phase(job_name, phases, phase) ==
    LET found == {i \in 1..Len(phases) : PyEq(phases[i][1], job_name)}
    IN  IF found = {} THEN Append(phases, <<job_name, phase>>)
        ELSE [phases EXCEPT ![CHOOSE i \in found : \A k \in found : i <= k] =
                                <<job_name, phase>>]

\* phase_matches without the Disappeared policy
phase_matches_exact(dependency, phases) ==
    PyEq(get_job_phase(dependency[1], phases), dependency[2])

\* phase_matches reading a job without recorded phase as Pending
phase_matches_pending(dependency, phases) ==
    LET dependency_name == dependency[1]
        dependency_phase == dependency[2]
        recorded_phase == get_job_phase(dependency_name, phases)
        current_phase == IF PyEq(recorded_phase, None) THEN PyStr("Pending") ELSE recorded_phase
    IN  IF PyEq(dependency_phase, PyStr("Succeeded"))
        THEN PyEq(current_phase, PyStr("Succeeded")) \/ PyEq(current_phase, PyStr("Disappeared"))
        ELSE PyEq(current_phase, dependency_phase)

phase_matches(dependency, phases) ==
    LET dependency_name == dependency[1]
        dependency_phase == dependency[2]
        current_phase == get_job_phase(dependency_name, phases)
    IN  IF PyEq(dependency_phase, PyStr("Succeeded"))
        THEN PyEq(current_phase, PyStr("Succeeded")) \/ PyEq(current_phase, PyStr("Disappeared"))
        ELSE PyEq(current_phase, dependency_phase)

\* should_run taking Failed for a final phase as well
should_run_failed(job_name, phases, my_dependencies) ==
    LET phase == get_job_phase(job_name, phases)
    IN  IF \/ PyEq(phase, PyStr("Succeeded")) \/ PyEq(phase, PyStr("Disappeared"))
           \/ PyEq(phase, PyStr("Failed"))
        THEN FALSE
        ELSE \A i \in 1..Len(my_dependencies) : phase_matches(my_dependencies[i], phases)

\* should_run with any() in place of all()
should_run_any(job_name, phases, my_dependencies) ==
    LET phase == get_job_phase(job_name, phases)
    IN  IF PyEq(phase, PyStr("Succeeded")) \/ PyEq(phase, PyStr("Disappeared"))
        THEN FALSE
        ELSE \E i \in 1..Len(my_dependencies) : phase_matches(my_dependencies[i], phases)

\* should_run without the test of the job's own phase
should_run_unguarded(job_name, phases, my_dependencies) ==
    \A i \in 1..Len(my_dependencies) : phase_matches(my_dependencies[i], phases)

should_run(job_name, phases, my_dependencies) ==
    LET phase == get_job_phase(job_name, phases)
    IN  IF PyEq(phase, PyStr("Succeeded")) \/ PyEq(phase, PyStr("Disappeared"))
        THEN FALSE
        ELSE \A i \in 1..Len(my_dependencies) : phase_matches(my_dependencies[i], phases)

\* all_dependencies is a list of (job_name, [(job_name, phase), ...]) tuples
RECURSIVE calculate_jobs(_, _)
calculate_jobs(all_dependencies, phases) ==
    IF Len(all_dependencies) = 0 THEN <<>>
    ELSE LET job_name == str(Head(all_dependencies)[1])
             job_dependencies == Head(all_dependencies)[2]
         IN  (IF should_run(job_name, phases, job_dependencies) THEN <<job_name>> ELSE <<>>)
                 \o calculate_jobs(Tail(all_dependencies), phases)

-----------------------------------------------------------------------------
(* handle_json_request                                                     *)

\* What the handler hands back: the response document (with log, the desired
\* jobs it printed on the way), or nothing but the exception that ended it
Response(phases, counter, desired_pods, log) ==
    [ok |-> TRUE, exc |-> "",
     status |-> [phases |-> phases, counter |-> counter],
     children |-> desired_pods,
     log |-> log]
Failure(exception) == [ok |-> FALSE, exc |-> exception]

\* is_my_child taking every observed pod for a child
is_my_child_any(child_pod_name, name_prefix) == TRUE

is_my_child(child_pod_name, name_prefix) ==
    /\ Len(child_pod_name) >= Len(name_prefix)
    /\ SubSeq(child_pod_name, 1, Len(name_prefix)) = name_prefix

extract_name(child_pod_name, name_prefix) ==
    SubSeq(child_pod_name, Len(name_prefix) + 1, Len(child_pod_name))

\* new_pod with the default restart policy written into it
new_pod_never(container, name_prefix, restart_policy) ==
    [apiVersion |-> "v1",
     kind |-> "Pod",
     metadata |-> [name |-> name_prefix \o str(ValueAt(container, "name")).v],
     spec |-> [containers |-> <<container>>, restartPolicy |-> PyStr("Never")]]

new_pod(container, name_prefix, restart_policy) ==
    [apiVersion |-> "v1",
     kind |-> "Pod",
     metadata |-> [name |-> name_prefix \o str(ValueAt(container, "name")).v],
     spec |-> [containers |-> <<container>>, restartPolicy |-> restart_policy]]

\* d[key] = value
SetItem(d, key, value) ==
    IF HasKey(d, key)
    THEN PyDict([i \in 1..Len(d.v) |-> IF d.v[i][1] = key THEN <<key, value>> ELSE d.v[i]])
    ELSE PyDict(Append(d.v, <<key, value>>))

\* job_name in current_jobs
IsObserved(job_name, current_jobs) ==
    job_name.t = "str" /\ HasKey(current_jobs, job_name.v)

\* MergePhase appending the observed phase to the list
MergePhaseAppend(job_name, phases, phase) ==
    IF ~PyEq(get_job_phase(job_name, phases), PyStr("Succeeded"))
    THEN Append(phases, <<job_name, phase>>)
    ELSE phases

\* MergePhase without the test for a recorded Succeeded
MergePhaseUnguarded(job_name, phases, phase) ==
    set_job_phase(job_name, phases, phase)

\* The phase list after the loop over the observed pods has seen job_name
\* in phase
MergePhase(job_name, phases, phase) ==
    IF ~PyEq(get_job_phase(job_name, phases), PyStr("Succeeded"))
    THEN set_job_phase(job_name, phases, phase)
    ELSE phases

\* RewriteVanished without the test for an observed pod
RewriteVanishedObserved(job_name, phase, phases, current_jobs) ==
    IF PyEq(phase, PyStr("Running"))
    THEN set_job_phase(job_name, phases, PyStr("Disappeared"))
    ELSE phases

\* RewriteVanished testing for a phase no pod reports
RewriteVanishedMisspelt(job_name, phase, phases, current_jobs) ==
    IF PyEq(phase, PyStr("running")) /\ ~IsObserved(job_name, current_jobs)
    THEN set_job_phase(job_name, phases, PyStr("Disappeared"))
    ELSE phases

\* The phase list after the loop over phases has visited the entry
\* (job_name, phase)
RewriteVanished(job_name, phase, phases, current_jobs) ==
    IF PyEq(phase, PyStr("Running")) /\ ~IsObserved(job_name, current_jobs)
    THEN set_job_phase(job_name, phases, PyStr("Disappeared"))
    ELSE phases

\* The loop over the observed pods: items are the (pod_name, value) items not
\* visited yet, phases and current_jobs what the loop has built so far
RECURSIVE MergeObserved(_, _, _, _)
MergeObserved(items, name_prefix, phases, current_jobs) ==
    IF Len(items) = 0
    THEN [ok |-> TRUE, exc |-> "", phases |-> phases, current_jobs |-> current_jobs]
    ELSE LET pod_name == Head(items)[1]
             value == Head(items)[2]
         IN  IF ~is_my_child(pod_name, name_prefix)
             THEN MergeObserved(Tail(items), name_prefix, phases, current_jobs)
             ELSE LET job_name == PyStr(extract_name(pod_name, name_prefix))
                      status == GetItem(value, "status")
                      phase == IF status.ok THEN GetItem(status.val, "phase") ELSE status
                  IN  IF ~phase.ok THEN Failure(phase.exc)
                      ELSE MergeObserved(
                               Tail(items), name_prefix,
                               MergePhase(job_name, phases, phase.val),
                               SetItem(current_jobs, job_name.v, phase.val))

\* The loop over phases from its index-th entry on; the list is updated in
\* place while the loop runs over it
RECURSIVE DetectDisappeared(_, _, _)
DetectDisappeared(index, phases, current_jobs) ==
    IF index > Len(phases) THEN phases
    ELSE DetectDisappeared(
             index + 1,
             RewriteVanished(phases[index][1], phases[index][2], phases, current_jobs),
             current_jobs)

\* One element of the dependencies comprehension
DependencyEntry(item) ==
    LET pair == Unpack2(item)
    IN  IF ~pair.ok THEN pair
        ELSE LET job_dependencies == UnpackPairs(pair.val[2])
             IN  IF ~job_dependencies.ok THEN job_dependencies
                 ELSE Return(<<pair.val[1], job_dependencies.val>>)

Dependencies(value) ==
    LET items == Iterate(value)
    IN  IF ~items.ok THEN items
        ELSE Collect([i \in 1..Len(items.val) |-> DependencyEntry(items.val[i])])

\* desired_pods without the test for the desired jobs
DesiredPodsAll(containers, desired_job_names, name_prefix, restart_policy) ==
    Return([k \in 1..Len(containers) |-> new_pod(containers[k], name_prefix, restart_policy)])

\* desired_pods stopping at the first container that is desired
DesiredPodsFirst(containers, desired_job_names, name_prefix, restart_policy) ==
    LET matching == {k \in 1..Len(containers) :
                        \E i \in 1..Len(desired_job_names) :
                            PyEq(ValueAt(containers[k], "name"), desired_job_names[i])}
    IN  IF matching = {} THEN Return(<<>>)
        ELSE Return(<<new_pod(containers[CHOOSE k \in matching : \A m \in matching : k <= m],
                              name_prefix, restart_policy)>>)

\* The desired_pods comprehension over the containers not visited yet
RECURSIVE DesiredPods(_, _, _, _)
DesiredPods(containers, desired_job_names, name_prefix, restart_policy) ==
    IF Len(containers) = 0 THEN Return(<<>>)
    ELSE LET container == Head(containers)
             name == GetItem(container, "name")
         IN  IF ~name.ok THEN name
             ELSE LET rest == DesiredPods(Tail(containers), desired_job_names,
                                          name_prefix, restart_policy)
                  IN  IF ~rest.ok THEN rest
                      ELSE IF \E i \in 1..Len(desired_job_names) :
                                  PyEq(name.val, desired_job_names[i])
                      THEN Return(<<new_pod(container, name_prefix, restart_policy)>>
                                      \o rest.val)
                      ELSE rest

\* MergedPhases starting from an empty list instead of the previous phases
MergedPhasesFresh(previous_phases, pods, name_prefix) ==
    LET merged == MergeObserved(pods.v, name_prefix, <<>>, PyDict(<<>>))
    IN  IF ~merged.ok THEN merged
        ELSE [ok |-> TRUE, exc |-> "",
              phases |-> DetectDisappeared(1, merged.phases, merged.current_jobs),
              current_jobs |-> merged.current_jobs]

\* The merge of the previous phases with the observed pods, then the
\* rewrite of the vanished Running jobs
MergedPhases(previous_phases, pods, name_prefix) ==
    LET merged == MergeObserved(pods.v, name_prefix, previous_phases, PyDict(<<>>))
    IN  IF ~merged.ok THEN merged
        ELSE [ok |-> TRUE, exc |-> "",
              phases |-> DetectDisappeared(1, merged.phases, merged.current_jobs),
              current_jobs |-> merged.current_jobs]

\* the counter handed back as it came
SameCounter(counter) == PyInt(counter.v)

\* counter + 1
NextCounter(counter) == PyInt(counter.v + 1)

handle_json_request(data) ==
    LET counter == getpath(data, "parent:status:counter", PyInt(0))
        name == getpath(data, "parent:metadata:name", Ellipsis)
        restart_policy ==
            getpath(data, "parent:spec:template:spec:restartPolicy", PyStr("Never"))
        previous_value == getpath(data, "parent:status:phases", PyList(<<>>))
        previous_phases ==
            IF previous_value.ok THEN UnpackPairs(previous_value.val) ELSE previous_value
        pods == getpath(data, "children:Pod.v1", PyDict(<<>>))
        dependencies_value == getpath(data, "parent:spec:dependencies", PyList(<<>>))
        dependencies ==
            IF dependencies_value.ok THEN Dependencies(dependencies_value.val)
            ELSE dependencies_value
        containers_value ==
            getpath(data, "parent:spec:template:spec:containers", PyList(<<>>))
        containers ==
            IF containers_value.ok THEN Iterate(containers_value.val) ELSE containers_value
    IN  IF ~counter.ok THEN Failure(counter.exc)
        ELSE IF ~name.ok THEN Failure(name.exc)
        ELSE IF ~restart_policy.ok THEN Failure(restart_policy.exc)
        ELSE IF ~previous_phases.ok THEN Failure(previous_phases.exc)
        ELSE IF ~pods.ok THEN Failure(pods.exc)
        ELSE IF pods.val.t # "dict" THEN Failure("AttributeError")
        ELSE LET name_prefix == str(name.val).v \o "-"
                 merged == MergedPhases(previous_phases.val, pods.val, name_prefix)
             IN  IF ~merged.ok THEN Failure(merged.exc)
                 ELSE IF ~dependencies.ok THEN Failure(dependencies.exc)
                 ELSE IF ~containers.ok THEN Failure(containers.exc)
                 ELSE LET desired_job_names ==
                              calculate_jobs(dependencies.val, merged.phases)
                          desired_pods ==
                              DesiredPods(containers.val, desired_job_names,
                                          name_prefix, restart_policy.val)
                      IN  IF ~desired_pods.ok THEN Failure(desired_pods.exc)
                          ELSE IF counter.val.t # "int" THEN Failure("TypeError")
                          ELSE Response(merged.phases, NextCounter(counter.val),
                                        desired_pods.val,
                                        [desired_job_names |-> desired_job_names])

-----------------------------------------------------------------------------
(* Request documents                                                       *)

MaxCounter == 4     \* reconcile cycles of one run

\* Marks a key the document does not have
Absent == [t |-> "absent", v |-> 0]

\* The dict of the items whose value is not Absent
Obj(items) == PyDict(SelectSeq(items, LAMBDA item : item[2].t # "absent"))

\* The request document of the sync webhook
Request(name, restartPolicy, status, dependencies, containers, pods) ==
    Obj(<< <<"children", Obj(<< <<"Pod.v1", pods>> >>)>>,
           <<"parent",
             Obj(<< <<"metadata", Obj(<< <<"name", name>> >>)>>,
                    <<"spec",
                      Obj(<< <<"dependencies", dependencies>>,
                             <<"template",
                               Obj(<< <<"spec",
                                        Obj(<< <<"containers", containers>>,
                                               <<"restartPolicy", restartPolicy>> >>)>> >>)>> >>)>>,
                    <<"status", status>> >>)>> >>)

\* parent.status as the caller hands the previous response's status back:
\* the tuples of the phase list are JSON arrays
StatusDocument(status) ==
    PyDict(<< <<"counter", status.counter>>,
              <<"phases", PyList([i \in 1..Len(status.phases) |->
                                     PyList(<<status.phases[i][1], status.phases[i][2]>>)])>> >>)

\* One (job_name, [(job_name, phase), ...]) entry of parent.spec.dependencies
Job(job_name, job_dependencies) ==
    PyList(<<PyStr(job_name),
             PyList([i \in 1..Len(job_dependencies) |->
                        PyList(<<PyStr(job_dependencies[i][1]),
                                 PyStr(job_dependencies[i][2])>>)])>>)

Container(name) == PyDict(<< <<"name", PyStr(name)>>, <<"image", PyStr("busybox")>> >>)

\* An observed child pod
Pod(phase) == PyDict(<< <<"status", PyDict(<< <<"phase", PyStr(phase)>> >>)>> >>)

PodPhases == {"Pending", "Running", "Succeeded", "Failed"}

\* Names of the pods the caller may report: children of the parent P and a
\* pod that is not its child, in the order the caller lists them
PodNames == <<"P-A", "P-B", "Q-A">>

\* The pod collections the caller may report: for each pod name, no pod or a
\* pod in one of the phases
RECURSIVE PodItems(_, _)
PodItems(index, phase_of) ==
    IF index > Len(PodNames) THEN <<>>
    ELSE (IF phase_of[index] = "" THEN <<>>
          ELSE << <<PodNames[index], Pod(phase_of[index])>> >>)
             \o PodItems(index + 1, phase_of)

Observations ==
    {PyDict(PodItems(1, phase_of)) :
        phase_of \in {f \in [1..Len(PodNames) -> PodPhases \cup {""}] :
                         f[Len(PodNames)] \in {"", "Running"}}}

\* The parents of the closed loop: dependencies, containers, restartPolicy
Chain == PyList(<<Job("A", <<>>), Job("B", << <<"A", "Succeeded">> >>)>>)
Join ==
    PyList(<<Job("A", <<>>), Job("B", <<>>),
             Job("C", << <<"A", "Succeeded">>, <<"B", "Succeeded">> >>)>>)
WhileRunning == PyList(<<Job("A", <<>>), Job("B", << <<"A", "Running">> >>)>>)

Parents ==
    { <<Chain, PyList(<<Container("A"), Container("B"), Container("C")>>), Absent>>,
      <<Join, PyList(<<Container("A"), Container("B"), Container("C")>>), PyStr("OnFailure")>>,
      <<WhileRunning, PyList(<<Container("B"), Container("A")>>), Absent>>,
      <<Chain, PyList(<<Container("A"), Container("A")>>), Absent>>,
      <<PyList(<<>>), PyList(<<Container("A"), Container("B")>>), Absent>> }

NoResponse == [ok |-> FALSE, exc |-> "no call"]
NoCall == [root |-> None, path |-> "", default |-> Ellipsis]

-----------------------------------------------------------------------------
(* The closed loop: the caller posts a request, the handler answers, the   *)
(* caller stores the returned status in the parent and posts again         *)

Init ==
    /\ \E parent \in Parents, status \in {Absent, PyDict(<<>>)} :
           request_data = Request(PyStr("P"), parent[3], status, parent[1], parent[2],
                                  PyDict(<<>>))
    /\ response = NoResponse
    /\ pc = "request"
    /\ cycles = 0
    /\ same_pods = FALSE
    /\ gp_args = NoCall
    /\ gp_result = Raise("no call")

do_POST ==
    /\ pc = "request"
    /\ response' = handle_json_request(request_data)
    /\ pc' = "response"
    /\ cycles' = cycles + 1
    /\ UNCHANGED <<request_data, same_pods, gp_args, gp_result>>

\* The next call: the parent carries the status of the last response, the
\* children are the pods observed now
Resync ==
    /\ pc = "response"
    /\ response.ok
    /\ response.status.counter.v < MaxCounter
    /\ \E pods \in Observations :
           /\ request_data' =
                  SetItem(SetItem(request_data, "parent",
                                  SetItem(ValueAt(request_data, "parent"), "status",
                                          StatusDocument(response.status))),
                          "children", PyDict(<< <<"Pod.v1", pods>> >>))
           /\ same_pods' = (pods = ValueAt(ValueAt(request_data, "children"), "Pod.v1"))
    /\ pc' = "request"
    /\ UNCHANGED <<response, cycles, gp_args, gp_result>>

Next == do_POST \/ Resync

Spec == Init /\ [][Next]_vars

-----------------------------------------------------------------------------
(* The closed loop of a caller that runs the pods of the response and no   *)
(* others: the observed pods are pods the last response asked for, the     *)
(* dependencies of the parent all require Succeeded                        *)

\* Every dependency of the graph requires Succeeded
RequiresSucceeded(graph) ==
    \A k \in 1..Len(graph.v) :
        \A i \in 1..Len(graph.v[k].v[2].v) :
            graph.v[k].v[2].v[i].v[2] = PyStr("Succeeded")

SucceededParents == {parent \in Parents : RequiresSucceeded(parent[1])}

InitChildren ==
    /\ \E parent \in SucceededParents, status \in {Absent, PyDict(<<>>)} :
           request_data = Request(PyStr("P"), parent[3], status, parent[1], parent[2],
                                  PyDict(<<>>))
    /\ response = NoResponse
    /\ pc = "request"
    /\ cycles = 0
    /\ same_pods = FALSE
    /\ gp_args = NoCall
    /\ gp_result = Raise("no call")

\* The next call: the parent carries the status of the last response, the
\* children are pods of the last response in the phase they are in now
ResyncChildren ==
    /\ pc = "response"
    /\ response.ok
    /\ response.status.counter.v < MaxCounter
    /\ \E pods \in Observations :
           /\ \A k \in 1..Len(pods.v) :
                  \E c \in 1..Len(response.children) :
                      response.children[c].metadata.name = pods.v[k][1]
           /\ request_data' =
                  SetItem(SetItem(request_data, "parent",
                                  SetItem(ValueAt(request_data, "parent"), "status",
                                          StatusDocument(response.status))),
                          "children", PyDict(<< <<"Pod.v1", pods>> >>))
           /\ same_pods' = (pods = ValueAt(ValueAt(request_data, "children"), "Pod.v1"))
    /\ pc' = "request"
    /\ UNCHANGED <<response, cycles, gp_args, gp_result>>

NextChildren == do_POST \/ ResyncChildren

SpecChildren == InitChildren /\ [][NextChildren]_vars

-----------------------------------------------------------------------------
(* The closed loop with the pods' life: the caller starts a pod for every  *)
(* child of the response; between two calls a pod goes from not yet        *)
(* observed to Pending, Running and Succeeded, or is gone after it was     *)
(* observed Running; the pod of a job that is no child any more is gone    *)

\* The job has an entry in the graph
IsDeclared(graph, job_name) == \E k \in 1..Len(graph.v) : graph.v[k].v[1] = job_name

\* Every dependency names a declared job, every declared job has one container
Runnable(graph, containers) ==
    /\ \A k \in 1..Len(graph.v) :
           /\ \A i \in 1..Len(graph.v[k].v[2].v) :
                  IsDeclared(graph, graph.v[k].v[2].v[i].v[1])
           /\ Cardinality({c \in 1..Len(containers.v) :
                               ValueAt(containers.v[c], "name") = graph.v[k].v[1]}) = 1

LiveParents == {parent \in SucceededParents : Runnable(parent[1], parent[2])}

InitLive ==
    /\ \E parent \in LiveParents, status \in {Absent, PyDict(<<>>)} :
           request_data = Request(PyStr("P"), parent[3], status, parent[1], parent[2],
                                  PyDict(<<>>))
    /\ response = NoResponse
    /\ pc = "request"
    /\ cycles = 0
    /\ same_pods = FALSE
    /\ gp_args = NoCall
    /\ gp_result = Raise("no call")

\* The phase the pod was observed in at the last call, "" when it was not
PreviousPhase(pods, pod_name) ==
    IF HasKey(pods, pod_name)
    THEN ValueAt(ValueAt(ValueAt(pods, pod_name), "status"), "phase").v
    ELSE ""

\* The phases a pod may be observed in next, "" for not observed
NextPhases(previous) ==
    CASE previous = "" -> {"", "Pending", "Running", "Succeeded"}
      [] previous = "Pending" -> {"Pending", "Running", "Succeeded"}
      [] previous = "Running" -> {"Running", "Succeeded", ""}
      [] OTHER -> {previous}

RECURSIVE LiveItems(_, _, _)
LiveItems(index, children, phase_of) ==
    IF index > Len(children) THEN <<>>
    ELSE (IF phase_of[index] = "" THEN <<>>
          ELSE << <<children[index].metadata.name, Pod(phase_of[index])>> >>)
             \o LiveItems(index + 1, children, phase_of)

\* The pod collections the caller may report after pods: the pods of the
\* children, each in a phase it may have reached
LiveObservations(children, pods) ==
    {PyDict(LiveItems(1, children, phase_of)) :
        phase_of \in {f \in [1..Len(children) -> PodPhases \cup {""}] :
                         \A k \in 1..Len(children) :
                             f[k] \in NextPhases(
                                        PreviousPhase(pods, children[k].metadata.name))}}

\* The next call with the observed pods
ResyncWith(pods) ==
    /\ request_data' =
           SetItem(SetItem(request_data, "parent",
                           SetItem(ValueAt(request_data, "parent"), "status",
                                   StatusDocument(response.status))),
                   "children", PyDict(<< <<"Pod.v1", pods>> >>))
    /\ same_pods' = (pods = ValueAt(ValueAt(request_data, "children"), "Pod.v1"))
    /\ pc' = "request"
    /\ UNCHANGED <<response, cycles, gp_args, gp_result>>

\* The next call when no pod has changed
ResyncIdle ==
    /\ pc = "response"
    /\ response.ok
    /\ response.status.counter.v < MaxCounter
    /\ LET pods == ValueAt(ValueAt(request_data, "children"), "Pod.v1")
       IN  /\ pods \in LiveObservations(response.children, pods)
           /\ ResyncWith(pods)

\* The next call when a pod has appeared, changed its phase or gone
ResyncProgress ==
    /\ pc = "response"
    /\ response.ok
    /\ LET pods == ValueAt(ValueAt(request_data, "children"), "Pod.v1")
       IN  \E observed \in LiveObservations(response.children, pods) \ {pods} :
               ResyncWith(observed)

NextLive == do_POST \/ ResyncIdle \/ ResyncProgress

\* Weak fairness of do_POST, the server answering every request it is sent:
\* do_POST is enabled exactly when pc = "request", so WF_vars(do_POST) reads
\* as below
FairPost == []<>(pc # "request") \/ []<><<do_POST>>_vars
\* The handler answers every request; a pod that can move on does not stay
\* as it is for ever
SpecLive ==
    InitLive /\ [][NextLive]_vars /\ FairPost /\ WF_vars(ResyncProgress)

-----------------------------------------------------------------------------
(* One request: the documents a single call may be handed, fields absent   *)
(* or present                                                              *)

RequestNames == {Absent, PyStr("MyName")}
RequestPolicies == {Absent, PyStr("OnFailure")}
RequestStatuses ==
    {Absent,
     PyDict(<<>>),
     PyDict(<< <<"counter", PyInt(2)>> >>),
     PyDict(<< <<"phases", PyList(<<PyList(<<PyStr("A"), PyStr("Running")>>)>>)>> >>),
     PyDict(<< <<"counter", PyInt(1)>>,
               <<"phases", PyList(<<PyList(<<PyStr("A"), PyStr("Succeeded")>>),
                                    PyList(<<PyStr("B"), PyStr("Running")>>)>>)>> >>)}
RequestDependencies ==
    {Absent,
     Chain,
     PyList(<<Job("EXAMPLE CONTAINER", <<>>)>>),
     PyDict(<< <<"EXAMPLE CONTAINER", PyList(<<>>)>> >>)}
RequestContainers ==
    {Absent,
     PyList(<<Container("A"), Container("B")>>),
     PyList(<<PyDict(<< <<"name", PyStr("EXAMPLE CONTAINER")>> >>)>>),
     PyList(<<Container("A"), PyDict(<< <<"image", PyStr("busybox")>> >>)>>)}
RequestPods ==
    {Absent,
     PyDict(<<>>),
     PyDict(<< <<"MyName-B", Pod("Failed")>>, <<"MyName-A", Pod("Running")>> >>)}

InitRequest ==
    /\ \E name \in RequestNames, restartPolicy \in RequestPolicies,
          status \in RequestStatuses, dependencies \in RequestDependencies,
          containers \in RequestContainers, pods \in RequestPods :
           request_data = Request(name, restartPolicy, status, dependencies,
                                  containers, pods)
    /\ response = NoResponse
    /\ pc = "request"
    /\ cycles = 0
    /\ same_pods = FALSE
    /\ gp_args = NoCall
    /\ gp_result = Raise("no call")

SpecRequest == InitRequest /\ [][do_POST]_vars

-----------------------------------------------------------------------------
(* One request of a parent whose job B depends on job A in a required      *)
(* phase, for every required phase and every recorded and observed phase   *)
(* of A                                                                    *)

RequiredPhases == {"Pending", "Running", "Succeeded", "Failed", "Disappeared", "Unknown"}

\* parent.status.phases: nothing recorded, or a phase recorded for A
RecordedStatuses ==
    {PyDict(<< <<"phases", PyList(<<>>)>> >>)}
        \cup {PyDict(<< <<"phases", PyList(<<PyList(<<PyStr("A"), PyStr(phase)>>)>>)>> >>) :
                 phase \in RequiredPhases}

\* The observed pods: none, or the pod of A in a phase a pod reports
DependencyPods ==
    {PyDict(<<>>)}
        \cup {PyDict(<< <<"P-A", Pod(phase)>> >>) : phase \in PodPhases \cup {"Unknown"}}

InitDependency ==
    /\ \E required \in RequiredPhases, status \in RecordedStatuses, pods \in DependencyPods :
           request_data =
               Request(PyStr("P"), Absent, status,
                       PyList(<<Job("A", <<>>), Job("B", << <<"A", required>> >>)>>),
                       PyList(<<Container("A"), Container("B")>>), pods)
    /\ response = NoResponse
    /\ pc = "request"
    /\ cycles = 0
    /\ same_pods = FALSE
    /\ gp_args = NoCall
    /\ gp_result = Raise("no call")

SpecDependency == InitDependency /\ [][do_POST]_vars

-----------------------------------------------------------------------------
(* getpath on its own                                                      *)

GetpathRoots ==
    {PyDict(<<>>),
     PyDict(<< <<"outer", PyStr("value")>> >>),
     PyDict(<< <<"outer", PyDict(<<>>)>> >>),
     PyDict(<< <<"outer", PyDict(<< <<"inner", PyStr("value")>> >>)>> >>),
     PyDict(<< <<"outer", PyDict(<< <<"inner", PyDict(<< <<"deep", PyInt(1)>> >>)>> >>)>> >>),
     PyDict(<< <<"outer", None>>, <<"inner", PyStr("value")>> >>),
     PyStr("value")}
GetpathPaths ==
    {"outer", "missing", "outer:inner", "outer:missing", "missing:inner",
     "outer:inner:deep", "outer:missing:deep", "inner"}
GetpathDefaults == {Ellipsis, PyStr("default"), None}

InitGetpath ==
    /\ \E root \in GetpathRoots, path \in GetpathPaths, default \in GetpathDefaults :
           gp_args = [root |-> root, path |-> path, default |-> default]
    /\ gp_result = Raise("no call")
    /\ pc = "getpath"
    /\ request_data = PyDict(<<>>)
    /\ response = NoResponse
    /\ cycles = 0
    /\ same_pods = FALSE

CallGetpath ==
    /\ pc = "getpath"
    /\ gp_result' = getpath(gp_args.root, gp_args.path, gp_args.default)
    /\ pc' = "returned"
    /\ UNCHANGED <<request_data, response, cycles, same_pods, gp_args>>

SpecGetpath == InitGetpath /\ [][CallGetpath]_vars

-----------------------------------------------------------------------------
(* Reading a state: the request as the caller wrote it, the response as    *)
(* the caller reads it                                                     *)

JobNames == {"A", "B", "C"}

\* The value at the keys of a document, Absent when a key is missing
RECURSIVE Field(_, _)
Field(document, keys) ==
    IF Len(keys) = 0 THEN document
    ELSE IF document.t = "dict" /\ HasKey(document, Head(keys))
    THEN Field(ValueAt(document, Head(keys)), Tail(keys))
    ELSE Absent

OrElse(value, default) == IF value.t = "absent" THEN default ELSE value

ParentName == Field(request_data, <<"parent", "metadata", "name">>)
DeclaredDependencies == Field(request_data, <<"parent", "spec", "dependencies">>)
TemplateContainers ==
    Field(request_data, <<"parent", "spec", "template", "spec", "containers">>)
TemplatePolicy ==
    Field(request_data, <<"parent", "spec", "template", "spec", "restartPolicy">>)
PriorCounter == Field(request_data, <<"parent", "status", "counter">>)
PriorPhaseList == Field(request_data, <<"parent", "status", "phases">>)
ObservedPods == Field(request_data, <<"children", "Pod.v1">>)

\* The prior phases as (job, phase) pairs
PriorPhases ==
    LET list == OrElse(PriorPhaseList, PyList(<<>>))
    IN  [i \in 1..Len(list.v) |-> <<list.v[i].v[1], list.v[i].v[2]>>]

HasPhase(phases, job, phase) ==
    \E i \in 1..Len(phases) : phases[i] = <<PyStr(job), PyStr(phase)>>

Finished(phases, job) ==
    HasPhase(phases, job, "Succeeded") \/ HasPhase(phases, job, "Disappeared")

PodName(job) == ParentName.v \o "-" \o job

\* A pod of the job is among the observed children
Observed(job) ==
    LET pods == OrElse(ObservedPods, PyDict(<<>>))
    IN  HasKey(pods, PodName(job))

ObservedPhase(job) ==
    ValueAt(ValueAt(ValueAt(ObservedPods, PodName(job)), "status"), "phase").v

Answered == pc = "response" /\ response.ok

Desired(job) ==
    \E i \in 1..Len(response.log.desired_job_names) :
        response.log.desired_job_names[i] = PyStr(job)

\* The children of the response that are pods of the job
ChildrenOf(job) ==
    {k \in 1..Len(response.children) : response.children[k].metadata.name = PodName(job)}

\* The template containers named after the job
ContainersOf(job) ==
    LET containers == OrElse(TemplateContainers, PyList(<<>>))
    IN  {k \in 1..Len(containers.v) :
            Field(containers.v[k], <<"name">>) = PyStr(job)}

-----------------------------------------------------------------------------
(* Claims                                                                  *)

\* C1 (sticky success): over the cycles of the closed loop, a job that is
\* Succeeded in the phases of a response is Succeeded in the phases of every
\* later response, whatever is observed of it.
StickySuccess ==
    [][\A job \in JobNames :
          (response.ok /\ HasPhase(response.status.phases, job, "Succeeded"))
              => (response'.ok /\ HasPhase(response'.status.phases, job, "Succeeded"))]_vars

\* C1 witness: A was Succeeded and is observed Failed, B was Succeeded and has
\* no pod; both are Succeeded in the response.
StickySuccessWitness ==
    /\ Answered
    /\ HasPhase(PriorPhases, "A", "Succeeded")
    /\ Observed("A") /\ ObservedPhase("A") = "Failed"
    /\ HasPhase(PriorPhases, "B", "Succeeded")
    /\ ~Observed("B")
    /\ HasPhase(response.status.phases, "A", "Succeeded")
    /\ HasPhase(response.status.phases, "B", "Succeeded")

\* C2 (disappearance rewrite): in every response, no job that has no observed
\* pod is Running, and a job that was Running and has no observed pod is
\* Disappeared.
DisappearanceRewrite ==
    Answered =>
        \A job \in JobNames :
            ~Observed(job) =>
                /\ ~HasPhase(response.status.phases, job, "Running")
                /\ HasPhase(PriorPhases, job, "Running")
                       => HasPhase(response.status.phases, job, "Disappeared")

\* C2 witness: A was Running, no pod of A is observed, A is Disappeared.
DisappearanceRewriteWitness ==
    /\ Answered
    /\ HasPhase(PriorPhases, "A", "Running")
    /\ ~Observed("A")
    /\ HasPhase(response.status.phases, "A", "Disappeared")

\* C3 (no re-run of finished jobs): a job that is Succeeded or Disappeared in
\* the phases of a response is not among the desired jobs and has no pod in
\* the children; and when a request carries the status of the response before
\* it and the same pods, a job that response recorded as Succeeded or
\* Disappeared has no pod in the children.
NoRerunOfFinished ==
    Answered =>
        \A job \in JobNames :
            /\ Finished(response.status.phases, job)
                   => ~Desired(job) /\ ChildrenOf(job) = {}
            /\ (same_pods /\ Finished(PriorPhases, job)) => ChildrenOf(job) = {}

\* C3 witness: the second of two requests with the same pods; A, declared
\* and with a container, was recorded Disappeared and gets no pod, while B
\* does.
NoRerunOfFinishedWitness ==
    /\ Answered
    /\ same_pods
    /\ DeclaredDependencies = Chain
    /\ ContainersOf("A") # {}
    /\ HasPhase(PriorPhases, "A", "Disappeared")
    /\ ~Desired("A")
    /\ ChildrenOf("A") = {}
    /\ ChildrenOf("B") # {}

\* C4 (disappearance implies success for dependents): a dependency on
\* (D, Succeeded) is satisfied exactly when D is Succeeded or Disappeared in
\* the merged phases; so in the chain A <- B, B, unless itself Succeeded or
\* Disappeared, is desired exactly when A is, and is desired in the cycle in
\* which A was already Succeeded or is rewritten from Running to Disappeared.
DisappearanceSatisfies ==
    Answered =>
        /\ \A job \in JobNames :
               phase_matches(<<PyStr(job), PyStr("Succeeded")>>, response.status.phases)
                   <=> Finished(response.status.phases, job)
        /\ (DeclaredDependencies = Chain /\ ~Finished(response.status.phases, "B")) =>
               /\ Desired("B") <=> Finished(response.status.phases, "A")
               /\ (\/ HasPhase(PriorPhases, "A", "Succeeded")
                   \/ HasPhase(PriorPhases, "A", "Running") /\ ~Observed("A"))
                      => Desired("B")

\* C4 witness: in the chain, A was Running and has vanished; A is
\* Disappeared and B is desired and gets its pod in the same response.
DisappearanceSatisfiesWitness ==
    /\ Answered
    /\ DeclaredDependencies = Chain
    /\ HasPhase(PriorPhases, "A", "Running")
    /\ ~Observed("A")
    /\ HasPhase(response.status.phases, "A", "Disappeared")
    /\ ~Finished(response.status.phases, "B")
    /\ Desired("B")
    /\ ChildrenOf("B") # {}

\* Whether the dependency pair [D, P] of the request is satisfied by phases
Satisfied(dependency, phases) ==
    IF dependency.v[2] = PyStr("Succeeded")
    THEN Finished(phases, dependency.v[1].v)
    ELSE HasPhase(phases, dependency.v[1].v, dependency.v[2].v)

\* C5 (dependency AND-semantics): a declared job is among the desired jobs
\* if and only if it is neither Succeeded nor Disappeared and every one of
\* its dependency pairs is satisfied.
AndSemantics ==
    Answered =>
        \A k \in 1..Len(DeclaredDependencies.v) :
            LET job == DeclaredDependencies.v[k].v[1].v
                job_dependencies == DeclaredDependencies.v[k].v[2].v
            IN  Desired(job) <=>
                    /\ ~Finished(response.status.phases, job)
                    /\ \A m \in 1..Len(job_dependencies) :
                           Satisfied(job_dependencies[m], response.status.phases)

\* C5 witness: C depends on A and B; A is Succeeded, B is still Running: C
\* is not desired, B, which has no dependencies, is.
AndSemanticsWitness ==
    /\ Answered
    /\ DeclaredDependencies = Join
    /\ HasPhase(response.status.phases, "A", "Succeeded")
    /\ HasPhase(response.status.phases, "B", "Running")
    /\ ~Desired("C")
    /\ Desired("B")
    /\ ~Desired("A")

\* C6 (counter): the counter of a response is the counter of the request
\* plus one, 1 when the request has none; after n cycles from a status
\* without counter it is n.
CounterIncrement ==
    Answered =>
        /\ response.status.counter = PyInt(OrElse(PriorCounter, PyInt(0)).v + 1)
        /\ PriorCounter.t = "absent" => response.status.counter = PyInt(1)
        /\ response.status.counter = PyInt(cycles)

\* C6 witness: the third response, whose request carried the counter 2.
CounterIncrementWitness ==
    /\ Answered
    /\ cycles = 3
    /\ PriorCounter = PyInt(2)
    /\ response.status.counter = PyInt(3)

\* The request of test_dummy
FirstCycleRequest ==
    Request(PyStr("MyName"), Absent, Absent,
            PyDict(<< <<"EXAMPLE CONTAINER", PyList(<<>>)>> >>),
            PyList(<<PyDict(<< <<"name", PyStr("EXAMPLE CONTAINER")>> >>)>>),
            PyDict(<<>>))

\* C7 (first-cycle scenario): the request with parent name MyName, the
\* dependencies given as a mapping of one job to an empty list, a container
\* of that name, no prior phases and no pods is answered, without error, by
\* counter 1, empty phases and the one pod MyName-<job> with that container
\* and restartPolicy Never.
FirstCycleScenario ==
    (pc = "response" /\ request_data = FirstCycleRequest) =>
        /\ response.ok
        /\ response.status.counter = PyInt(1)
        /\ Len(response.status.phases) = 0
        /\ Len(response.children) = 1
        /\ response.children[1].metadata.name = "MyName-EXAMPLE CONTAINER"
        /\ response.children[1].spec =
               [containers |-> <<PyDict(<< <<"name", PyStr("EXAMPLE CONTAINER")>> >>)>>,
                restartPolicy |-> PyStr("Never")]

\* The request with every absent optional field set to its default
Defaulted ==
    Request(ParentName,
            OrElse(TemplatePolicy, PyStr("Never")),
            PyDict(<< <<"counter", OrElse(PriorCounter, PyInt(0))>>,
                      <<"phases", OrElse(PriorPhaseList, PyList(<<>>))>> >>),
            OrElse(DeclaredDependencies, PyList(<<>>)),
            OrElse(TemplateContainers, PyList(<<>>)),
            OrElse(ObservedPods, PyDict(<<>>)))

SomeContainerUnnamed ==
    /\ TemplateContainers.t = "list"
    /\ \E k \in 1..Len(TemplateContainers.v) :
           Field(TemplateContainers.v[k], <<"name">>).t = "absent"

AllOptionalAbsent ==
    \A field \in {TemplatePolicy, PriorCounter, PriorPhaseList, DeclaredDependencies,
                  TemplateContainers, ObservedPods} : field.t = "absent"

\* C8 (failure semantics): a request without parent name, or with a
\* template container without name, ends in an error and yields no status
\* and no children; an absent restartPolicy, counter, phases, dependencies,
\* container list or pod collection is no error: the outcome is that of the
\* same request with 'Never', 0 and the empty collections in their place.
FailureSemantics ==
    pc = "response" =>
        /\ (ParentName.t = "absent" \/ SomeContainerUnnamed)
               => ~response.ok /\ DOMAIN response = {"ok", "exc"}
        /\ response = handle_json_request(Defaulted)
        /\ (ParentName.t # "absent" /\ AllOptionalAbsent) =>
               /\ response.ok
               /\ response.status = [phases |-> <<>>, counter |-> PyInt(1)]
               /\ response.children = <<>>
        /\ (response.ok /\ TemplatePolicy.t = "absent") =>
               \A k \in 1..Len(response.children) :
                   response.children[k].spec.restartPolicy = PyStr("Never")
        /\ (response.ok /\ PriorCounter.t = "absent") => response.status.counter = PyInt(1)

\* C8 witness: a named parent with dependencies and containers but no
\* restartPolicy, no status and no pod collection: the call succeeds, with
\* counter 1, no phases, and a pod with restartPolicy Never.
FailureSemanticsWitness ==
    /\ pc = "response"
    /\ ParentName = PyStr("MyName")
    /\ TemplatePolicy.t = "absent"
    /\ Field(request_data, <<"parent", "status">>).t = "absent"
    /\ ObservedPods.t = "absent"
    /\ response.ok
    /\ response.status = [phases |-> <<>>, counter |-> PyInt(1)]
    /\ Len(response.children) = 1
    /\ response.children[1].spec.restartPolicy = PyStr("Never")

\* The keys of the paths of GetpathPaths
PathKeys(path) ==
    CASE path = "outer" -> <<"outer">>
      [] path = "missing" -> <<"missing">>
      [] path = "inner" -> <<"inner">>
      [] path = "outer:inner" -> <<"outer", "inner">>
      [] path = "outer:missing" -> <<"outer", "missing">>
      [] path = "missing:inner" -> <<"missing", "inner">>
      [] path = "outer:inner:deep" -> <<"outer", "inner", "deep">>
      [] path = "outer:missing:deep" -> <<"outer", "missing", "deep">>

\* What following the keys from a value meets: the value at their end, a
\* mapping without the next key, or a value that is no mapping
RECURSIVE Walk(_, _)
Walk(value, keys) ==
    IF Len(keys) = 0 THEN [meets |-> "value", val |-> value]
    ELSE IF value.t # "dict" THEN [meets |-> "no mapping", val |-> None]
    ELSE IF ~HasKey(value, Head(keys)) THEN [meets |-> "missing key", val |-> None]
    ELSE Walk(ValueAt(value, Head(keys)), Tail(keys))

\* C9 (getpath): with every key of the path present the value at the path
\* is returned whatever the default; with a key missing in a mapping on the
\* way the default is returned if one was given and an error raised if not;
\* with the path running into a value that is no mapping an error is raised
\* with or without default.
GetpathContract ==
    pc = "returned" =>
        LET walk == Walk(gp_args.root, PathKeys(gp_args.path))
        IN  CASE walk.meets = "value" ->
                     gp_result.ok /\ PyEq(gp_result.val, walk.val)
              [] walk.meets = "missing key" ->
                     IF gp_args.default.t = "ellipsis"
                     THEN ~gp_result.ok
                     ELSE gp_result.ok /\ PyEq(gp_result.val, gp_args.default)
              [] walk.meets = "no mapping" -> ~gp_result.ok

\* C9 witness: the first key of a two-key path is missing and a default was
\* given: the default is returned.
GetpathContractWitness ==
    /\ pc = "returned"
    /\ gp_args.root = PyDict(<<>>)
    /\ gp_args.path = "missing:inner"
    /\ gp_args.default = PyStr("default")
    /\ gp_result = Return(PyStr("default"))

\* C10 as stated (one pod per desired job): every job among the desired jobs
\* has exactly one child named <parentName>-<jobName>, whatever the
\* container list.
OnePodPerDesiredJob ==
    Answered =>
        \A job \in JobNames : Desired(job) => Cardinality(ChildrenOf(job)) = 1

\* C10 as amended (one pod per desired container): every job among the
\* desired jobs has as many children named <parentName>-<jobName> as the
\* template has containers of that name: exactly one when it has exactly
\* one, none when it has none.
OnePodPerDesiredContainer ==
    Answered =>
        \A job \in JobNames :
            Desired(job) => Cardinality(ChildrenOf(job)) = Cardinality(ContainersOf(job))

\* C10 witness: A is desired and the template has two containers named A:
\* the children are two pods named after A.
OnePodPerDesiredContainerWitness ==
    /\ Answered
    /\ Desired("A")
    /\ Cardinality(ContainersOf("A")) = 2
    /\ Cardinality(ChildrenOf("A")) = 2
    /\ Len(response.children) = 2

\* The job is declared in parent.spec.dependencies
Declared(job) ==
    LET graph == OrElse(DeclaredDependencies, PyList(<<>>))
    IN  \E k \in 1..Len(graph.v) : graph.v[k].v[1] = PyStr(job)

\* C11 (pods only for desired, declared jobs): every child is the pod of a
\* template container whose name is among the desired jobs, every desired
\* job is declared in parent.spec.dependencies; so a container of an
\* undeclared job gets no pod, and an empty dependency graph gives no desired
\* job and no child.
OnlyDeclaredJobsGetPods ==
    Answered =>
        /\ \A k \in 1..Len(response.children) :
               \E job \in JobNames :
                   /\ response.children[k].metadata.name = PodName(job)
                   /\ ContainersOf(job) # {}
                   /\ Desired(job)
        /\ \A i \in 1..Len(response.log.desired_job_names) :
               \E job \in JobNames :
                   response.log.desired_job_names[i] = PyStr(job) /\ Declared(job)
        /\ \A job \in JobNames : ~Declared(job) => ChildrenOf(job) = {}
        /\ DeclaredDependencies = PyList(<<>>) =>
               response.log.desired_job_names = <<>> /\ response.children = <<>>

\* C11 witness: the template has a container C that the graph does not
\* declare; A is finished, B is desired: the only child is the pod of B.
OnlyDeclaredJobsGetPodsWitness ==
    /\ Answered
    /\ ContainersOf("C") # {}
    /\ ~Declared("C")
    /\ Finished(response.status.phases, "A")
    /\ Desired("B")
    /\ Len(response.children) = 1
    /\ ChildrenOf("B") = {1}

\* The pod the response is to carry for a template container
PodOf(container) ==
    [apiVersion |-> "v1",
     kind |-> "Pod",
     metadata |-> [name |-> ParentName.v \o "-" \o Field(container, <<"name">>).v],
     spec |-> [containers |-> <<container>>,
               restartPolicy |-> OrElse(TemplatePolicy, PyStr("Never"))]]

\* The pods of the containers, in their order, whose name is a desired job
RECURSIVE PodsOf(_)
PodsOf(containers) ==
    IF Len(containers) = 0 THEN <<>>
    ELSE (IF Desired(Field(Head(containers), <<"name">>).v)
          THEN <<PodOf(Head(containers))>> ELSE <<>>)
             \o PodsOf(Tail(containers))

\* C12 (pod shape): the children are, in the order of the template's
\* container list, one pod per container named after a desired job, each with
\* apiVersion v1, kind Pod, the name <parentName>-<containerName>, that one
\* container, and the template's restartPolicy, 'Never' when it has none.
PodShape ==
    Answered => response.children = PodsOf(OrElse(TemplateContainers, PyList(<<>>)).v)

\* C12 witness: the template lists B before A and has no restartPolicy; both
\* are desired: the children are the pod of B, then the pod of A, both with
\* restartPolicy Never.
PodShapeWitness ==
    /\ Answered
    /\ TemplatePolicy.t = "absent"
    /\ Len(response.children) = 2
    /\ response.children[1].metadata.name = "P-B"
    /\ response.children[2].metadata.name = "P-A"
    /\ response.children[1].spec =
           [containers |-> <<Container("B")>>, restartPolicy |-> PyStr("Never")]
    /\ response.children[2].kind = "Pod" /\ response.children[2].apiVersion = "v1"

\* The job declares the dependency (dependency, phase)
Requires(job, dependency, phase) ==
    LET graph == OrElse(DeclaredDependencies, PyList(<<>>))
    IN  \E k \in 1..Len(graph.v) :
            /\ graph.v[k].v[1] = PyStr(job)
            /\ \E i \in 1..Len(graph.v[k].v[2].v) :
                   graph.v[k].v[2].v[i] = PyList(<<PyStr(dependency), PyStr(phase)>>)

\* A phase is recorded for the job
Recorded(phases, job) == \E i \in 1..Len(phases) : phases[i][1] = PyStr(job)

\* C13 (exact match for a required phase other than Succeeded): a dependency
\* (A, P) with P other than Succeeded is satisfied if and only if the merged
\* phase of A is P itself, so B, whose only dependency it is, is desired
\* exactly then; a job without recorded phase satisfies no required phase,
\* Pending included.
ExactMatch ==
    Answered =>
        /\ \A phase \in RequiredPhases \ {"Succeeded"} :
               /\ phase_matches(<<PyStr("A"), PyStr(phase)>>, response.status.phases)
                      <=> HasPhase(response.status.phases, "A", phase)
               /\ Requires("B", "A", phase) =>
                      (Desired("B") <=> HasPhase(response.status.phases, "A", phase))
        /\ ~Recorded(response.status.phases, "A") =>
               /\ ~Desired("B")
               /\ \A phase \in RequiredPhases :
                      ~phase_matches(<<PyStr("A"), PyStr(phase)>>, response.status.phases)

\* C13 witness: B requires A to be Running; A was Running and its pod is
\* gone, so A is Disappeared and B is not desired.
ExactMatchWitness ==
    /\ Answered
    /\ Requires("B", "A", "Running")
    /\ HasPhase(PriorPhases, "A", "Running")
    /\ ~Observed("A")
    /\ HasPhase(response.status.phases, "A", "Disappeared")
    /\ ~Desired("B")

\* A pod that is no child of the parent is among the observed pods
ForeignObserved ==
    LET pods == OrElse(ObservedPods, PyDict(<<>>))
        prefix == ParentName.v \o "-"
    IN  \E k \in 1..Len(pods.v) :
            \/ Len(pods.v[k][1]) < Len(prefix)
            \/ SubSeq(pods.v[k][1], 1, Len(prefix)) # prefix

\* C14 (observed overwrite): a job whose pod is observed and that the prior
\* phases do not record as Succeeded has the pod's phase in the response,
\* whatever its prior phase; every entry of the response is that of a job
\* observed as child or recorded before, and a job without observed child
\* keeps what the prior phases and the disappearance rewrite give it, so a
\* pod not named <parentName>-... changes no entry.
ObservedOverwrite ==
    Answered =>
        /\ \A job \in JobNames :
               Observed(job) /\ ~HasPhase(PriorPhases, job, "Succeeded") =>
                   get_job_phase(PyStr(job), response.status.phases) = PyStr(ObservedPhase(job))
        /\ \A i \in 1..Len(response.status.phases) :
               \E job \in JobNames :
                   /\ response.status.phases[i][1] = PyStr(job)
                   /\ Observed(job) \/ Recorded(PriorPhases, job)
                   /\ ~Observed(job) =>
                          \/ HasPhase(PriorPhases, job, response.status.phases[i][2].v)
                          \/ /\ response.status.phases[i][2] = PyStr("Disappeared")
                             /\ HasPhase(PriorPhases, job, "Running")

\* C14 witness: A is recorded as Disappeared, its pod is observed as Pending
\* next to a pod of another parent, and B, recorded as Failed, is not
\* observed: A is Pending, B is Failed.
ObservedOverwriteWitness ==
    /\ Answered
    /\ ForeignObserved
    /\ HasPhase(PriorPhases, "A", "Disappeared")
    /\ Observed("A") /\ ObservedPhase("A") = "Pending"
    /\ HasPhase(PriorPhases, "B", "Failed") /\ ~Observed("B")
    /\ response.status.phases =
           << <<PyStr("A"), PyStr("Pending")>>, <<PyStr("B"), PyStr("Failed")>> >>

\* C15 (carry-forward): every job of the prior phases has an entry in the
\* response; when no pod of it is observed, the entry holds the prior phase,
\* Disappeared in place of Running.
CarryForward ==
    Answered =>
        \A i \in 1..Len(PriorPhases) :
            LET job == PriorPhases[i][1]
                phase == PriorPhases[i][2]
            IN  /\ \E k \in 1..Len(response.status.phases) :
                       response.status.phases[k][1] = job
                /\ ~Observed(job.v) =>
                       get_job_phase(job, response.status.phases) =
                           (IF phase = PyStr("Running") THEN PyStr("Disappeared") ELSE phase)

\* C15 witness: A is recorded as Failed and B as Running, no pod of theirs is
\* observed: A stays Failed and B becomes Disappeared.
CarryForwardWitness ==
    /\ Answered
    /\ PriorPhases = << <<PyStr("A"), PyStr("Failed")>>, <<PyStr("B"), PyStr("Running")>> >>
    /\ ~Observed("A") /\ ~Observed("B")
    /\ response.status.phases =
           << <<PyStr("A"), PyStr("Failed")>>, <<PyStr("B"), PyStr("Disappeared")>> >>

\* C16 (Disappeared only for vanished running jobs): in every cycle of the
\* loop, which starts without phases and whose pods never report
\* Disappeared, a job that is Disappeared in the response and was not in the
\* prior phases was Running there and has no observed pod.
DisappearedOnlyFromRunning ==
    Answered =>
        \A job \in JobNames :
            /\ HasPhase(response.status.phases, job, "Disappeared")
            /\ ~HasPhase(PriorPhases, job, "Disappeared")
            => HasPhase(PriorPhases, job, "Running") /\ ~Observed(job)

\* C16 witness: A and B are recorded as Running, the pod of A is observed as
\* Running and B has none: B becomes Disappeared, A stays Running.
DisappearedOnlyFromRunningWitness ==
    /\ Answered
    /\ HasPhase(PriorPhases, "A", "Running") /\ HasPhase(PriorPhases, "B", "Running")
    /\ Observed("A") /\ ObservedPhase("A") = "Running"
    /\ ~Observed("B")
    /\ HasPhase(response.status.phases, "A", "Running")
    /\ HasPhase(response.status.phases, "B", "Disappeared")

\* No two entries of the phase list are of the same job
UniqueKeys(phases) ==
    \A i, k \in 1..Len(phases) : phases[i][1] = phases[k][1] => i = k

\* C17 (one entry per job): from prior phases with at most one entry per job
\* the response has at most one entry per job, cycle after cycle, and
\* get_job_phase reads that entry.
PhaseKeysUnique ==
    Answered /\ UniqueKeys(PriorPhases) =>
        /\ UniqueKeys(response.status.phases)
        /\ \A i \in 1..Len(response.status.phases) :
               get_job_phase(response.status.phases[i][1], response.status.phases) =
                   response.status.phases[i][2]

\* C17 witness: A and B are recorded as Pending and observed as Running and
\* Failed: the response has the two entries, rewritten in place.
PhaseKeysUniqueWitness ==
    /\ Answered
    /\ PriorPhases = << <<PyStr("A"), PyStr("Pending")>>, <<PyStr("B"), PyStr("Pending")>> >>
    /\ Observed("A") /\ ObservedPhase("A") = "Running"
    /\ Observed("B") /\ ObservedPhase("B") = "Failed"
    /\ response.status.phases =
           << <<PyStr("A"), PyStr("Running")>>, <<PyStr("B"), PyStr("Failed")>> >>

\* C18 (phase fixpoint): a reconcile whose request carries the status of the
\* last response and the same observed pods as the last request answers with
\* the same status.phases and the same children; the counter alone moves on.
PhaseFixpoint ==
    [][pc = "request" /\ same_pods =>
           /\ response'.ok
           /\ response'.status.phases = response.status.phases
           /\ response'.children = response.children
           /\ response'.status.counter.v = response.status.counter.v + 1]_vars

\* C18 witness: the second reconcile on the same pods, B Running and no pod
\* of A, which had become Disappeared: phases and the child of B are those of
\* the request's status.
PhaseFixpointWitness ==
    /\ Answered
    /\ same_pods
    /\ response.status.phases = PriorPhases
    /\ HasPhase(response.status.phases, "A", "Disappeared")
    /\ Observed("B") /\ ObservedPhase("B") = "Running"
    /\ ~Observed("A")
    /\ ChildrenOf("B") # {}

\* C19 (desired until finished): where the observed pods are pods of the
\* last response and every dependency requires Succeeded, a job desired in
\* one cycle is desired in the next unless its phase has become Succeeded or
\* Disappeared, and so in every later cycle until then; the same holds of
\* its pod among the children.
DesiredUntilFinished ==
    [][pc = "request" /\ response.ok =>
           /\ response'.ok
           /\ \A job \in JobNames :
                  /\ Desired(job) =>
                         Desired(job)' \/ Finished(response'.status.phases, job)
                  /\ ChildrenOf(job) # {} =>
                         \/ Cardinality(ChildrenOf(job)') = Cardinality(ChildrenOf(job))
                         \/ Finished(response'.status.phases, job)]_vars

\* C19 witness: the pod of B, which was Running, is observed as Failed: B is
\* still desired and its pod still among the children.
DesiredUntilFinishedWitness ==
    /\ Answered
    /\ RequiresSucceeded(DeclaredDependencies)
    /\ HasPhase(PriorPhases, "B", "Running")
    /\ Observed("B") /\ ObservedPhase("B") = "Failed"
    /\ HasPhase(response.status.phases, "B", "Failed")
    /\ Desired("B")
    /\ ChildrenOf("B") # {}

\* Every declared job is Succeeded or Disappeared in the last response
AllFinished ==
    \A job \in JobNames : Declared(job) => Finished(response.status.phases, job)

\* C20 (pipeline completion): from an empty status, with dependencies that
\* all require Succeeded of declared jobs, a container for every declared
\* job, pods that move on to Succeeded or are gone after Running, and a
\* handler that answers every request, eventually every declared job is
\* Succeeded or Disappeared and the children are empty, from then on for ever.
PipelineCompletion ==
    <>[](response.ok /\ AllFinished /\ response.children = <<>>)

\* C20 witness: the three jobs of the join are finished, one of them
\* Disappeared, and the response has no children.
PipelineCompletionWitness ==
    /\ Answered
    /\ Declared("C")
    /\ AllFinished
    /\ HasPhase(response.status.phases, "A", "Disappeared")
    /\ HasPhase(response.status.phases, "C", "Succeeded")
    /\ response.children = <<>>

====
